---- MODULE Spec2Model ----
(***************************************************************************)
(* ThreatScope AI (index.tsx): the view state of App, QuizModal and        *)
(* ThreatMap, the file-to-payload dispatch (FileDropZone.processFile and   *)
(* App.analyzeEmail) and the binding of the model's JSON replies.          *)
(*                                                                         *)
(* JavaScript values are records [t, s, n, o]: t is the type tag, s the    *)
(* characters of a string, n the number (or 0/1 for a boolean), o the      *)
(* members of an object in insertion order.  A string is a sequence of     *)
(* chunks; the chunk "," is the comma, and no other chunk holds a comma,   *)
(* so that String.split(",") can be computed.  File names and file texts   *)
(* are sequences of single characters, MIME types and the string atoms of  *)
(* a reply are single chunks.                                              *)
(***************************************************************************)
EXTENDS Integers, Sequences, FiniteSets, TLC

\* ------------------------------------------------------------------------
\* JavaScript values
\* ------------------------------------------------------------------------
Undefined == [t |-> "undefined", s |-> <<>>, n |-> 0, o |-> <<>>]

Null == [t |-> "null", s |-> <<>>, n |-> 0, o |-> <<>>]

Bool(b) == [t |-> "boolean", s |-> <<>>, n |-> IF b THEN 1 ELSE 0, o |-> <<>>]

Num(k) == [t |-> "number", s |-> <<>>, n |-> k, o |-> <<>>]

\* a string given by its chunks
StrOf(chunks) == [t |-> "string", s |-> chunks, n |-> 0, o |-> <<>>]

\* a string atom: one chunk, or the empty string
Str(a) == StrOf(IF a = "" THEN <<>> ELSE <<a>>)

\* an array, kept opaque: a names its contents
Arr(a) == [t |-> "array", s |-> <<a>>, n |-> 0, o |-> <<>>]

\* an object given by its members <<key, value>>, in insertion order
Obj(members) == [t |-> "object", s |-> <<>>, n |-> 0, o |-> members]

\* ToBoolean: what `if (v)`, `!v` and `v && ...` test
Truthy(v) ==
    CASE v.t = "undefined" -> FALSE
      [] v.t = "null" -> FALSE
      [] v.t = "boolean" -> v.n = 1
      [] v.t = "number" -> v.n # 0
      [] v.t = "string" -> v.s # <<>>
      [] OTHER -> TRUE

\* v[key] for an own property; undefined when absent or v is a primitive
Get(v, key) ==
    IF v.t = "object" /\ \E i \in 1..Len(v.o) : v.o[i][1] = key
    THEN v.o[CHOOSE i \in 1..Len(v.o) : v.o[i][1] = key][2]
    ELSE Undefined

\* v.key throws a TypeError exactly when v is undefined or null
ReadThrows(v) == v.t \in {"undefined", "null"}

\* ------------------------------------------------------------------------
\* Strings
\* ------------------------------------------------------------------------
\* String.prototype.endsWith
EndsWith(str, suffix) ==
    /\ Len(suffix) <= Len(str)
    /\ SubSeq(str, Len(str) - Len(suffix) + 1, Len(str)) = suffix

\* the position of the first comma at or after position i, 0 when none
RECURSIVE CommaFrom(_, _)
CommaFrom(str, i) ==
    IF i > Len(str) THEN 0
    ELSE IF str[i] = "," THEN i
    ELSE CommaFrom(str, i + 1)

\* str.split(",")[1]: the text between the first and the second comma,
\* undefined when str holds no comma
SplitComma1(str) ==
    LET c1 == CommaFrom(str, 1) IN
    IF c1 = 0 THEN Undefined
    ELSE LET c2 == CommaFrom(str, c1 + 1) IN
         StrOf(SubSeq(str, c1 + 1, IF c2 = 0 THEN Len(str) ELSE c2 - 1))

\* the printable ASCII characters, code 32 first (the grave accent, code 96,
\* is written U+0060)
Printable == <<
    " ", "!", "\"", "#", "$", "%", "&", "'", "(", ")", "*", "+", ",", "-", ".", "/",
    "0", "1", "2", "3", "4", "5", "6", "7", "8", "9", ":", ";", "<", "=", ">", "?",
    "@", "A", "B", "C", "D", "E", "F", "G", "H", "I", "J", "K", "L", "M", "N", "O",
    "P", "Q", "R", "S", "T", "U", "V", "W", "X", "Y", "Z", "[", "\\", "]", "^", "_",
    "U+0060", "a", "b", "c", "d", "e", "f", "g", "h", "i", "j", "k", "l", "m", "n", "o",
    "p", "q", "r", "s", "t", "u", "v", "w", "x", "y", "z", "{", "|", "}", "~" >>

\* FileReader.readAsText (UTF-8) on bytes that are printable ASCII, a line
\* feed, or a lone byte that is no valid UTF-8 and decodes to U+FFFD
Chr(b) ==
    IF b \in 32..126 THEN Printable[b - 31]
    ELSE IF b = 10 THEN "\n"
    ELSE "U+FFFD"

TextDecode(bytes) == [i \in 1..Len(bytes) |-> Chr(bytes[i])]

\* the base64 alphabet, value 0 first
B64Chars == <<
    "A", "B", "C", "D", "E", "F", "G", "H", "I", "J", "K", "L", "M", "N", "O", "P",
    "Q", "R", "S", "T", "U", "V", "W", "X", "Y", "Z", "a", "b", "c", "d", "e", "f",
    "g", "h", "i", "j", "k", "l", "m", "n", "o", "p", "q", "r", "s", "t", "u", "v",
    "w", "x", "y", "z", "0", "1", "2", "3", "4", "5", "6", "7", "8", "9", "+", "/" >>

\* base64 of the bytes, three at a time, padded with "="
RECURSIVE Base64(_)
Base64(bytes) ==
    IF Len(bytes) = 0 THEN <<>>
    ELSE IF Len(bytes) = 1 THEN
        << B64Chars[(bytes[1] \div 4) + 1],
           B64Chars[((bytes[1] % 4) * 16) + 1], "=", "=" >>
    ELSE IF Len(bytes) = 2 THEN
        << B64Chars[(bytes[1] \div 4) + 1],
           B64Chars[((bytes[1] % 4) * 16 + (bytes[2] \div 16)) + 1],
           B64Chars[((bytes[2] % 16) * 4) + 1], "=" >>
    ELSE
        << B64Chars[(bytes[1] \div 4) + 1],
           B64Chars[((bytes[1] % 4) * 16 + (bytes[2] \div 16)) + 1],
           B64Chars[((bytes[2] % 16) * 4 + (bytes[3] \div 64)) + 1],
           B64Chars[(bytes[3] % 64) + 1] >>
        \o Base64(SubSeq(bytes, 4, Len(bytes)))

\* FileReader.readAsDataURL: "data:" + type + ";base64," + base64; a file
\* without a type is read as application/octet-stream
DataURL(type, bytes) ==
    << "data:", IF type = "" THEN "application/octet-stream" ELSE type,
       ";base64", "," >> \o Base64(bytes)

\* ------------------------------------------------------------------------
\* JSON text.  A text is a sequence of tokens: the four punctuation marks of
\* an object, a literal (string, number, true, false, null or a whole array)
\* and "junk" for characters that belong to no JSON token.
\* ------------------------------------------------------------------------
LBrace == [k |-> "{", v |-> Undefined]

RBrace == [k |-> "}", v |-> Undefined]

Colon == [k |-> ":", v |-> Undefined]

Comma == [k |-> ",", v |-> Undefined]

Junk == [k |-> "junk", v |-> Undefined]

Lit(val) == [k |-> "lit", v |-> val]

ParseFail == [ok |-> FALSE, val |-> Undefined, rest |-> <<>>]

\* obj[key] = val: a key that is present keeps its place
SetMember(members, key, val) ==
    IF \E i \in 1..Len(members) : members[i][1] = key
    THEN [i \in 1..Len(members) |->
            IF members[i][1] = key THEN <<key, val>> ELSE members[i]]
    ELSE Append(members, <<key, val>>)

RECURSIVE ParseValue(_)
RECURSIVE ParseMembers(_, _)
\* one JSON value at the head of the tokens
ParseValue(toks) ==
    IF Len(toks) = 0 THEN ParseFail
    ELSE IF toks[1].k = "lit"
    THEN [ok |-> TRUE, val |-> toks[1].v, rest |-> Tail(toks)]
    ELSE IF toks[1].k = "{"
    THEN IF Len(toks) >= 2 /\ toks[2].k = "}"
         THEN [ok |-> TRUE, val |-> Obj(<<>>), rest |-> SubSeq(toks, 3, Len(toks))]
         ELSE ParseMembers(Tail(toks), <<>>)
    ELSE ParseFail

\* the members of an object, from a key on, up to the closing brace
ParseMembers(toks, acc) ==
    IF \/ Len(toks) < 3
       \/ toks[1].k # "lit"
       \/ toks[1].v.t # "string"
       \/ toks[2].k # ":"
    THEN ParseFail
    ELSE LET key == IF Len(toks[1].v.s) = 0 THEN "" ELSE toks[1].v.s[1]
             r == ParseValue(SubSeq(toks, 3, Len(toks)))
         IN  IF ~r.ok \/ Len(r.rest) = 0 THEN ParseFail
             ELSE IF r.rest[1].k = "}"
             THEN [ok |-> TRUE, val |-> Obj(SetMember(acc, key, r.val)),
                   rest |-> Tail(r.rest)]
             ELSE IF r.rest[1].k = ","
             THEN ParseMembers(Tail(r.rest), SetMember(acc, key, r.val))
             ELSE ParseFail

\* JSON.parse: the value, or ok = FALSE where JSON.parse throws a SyntaxError
JSONParse(toks) ==
    LET r == ParseValue(toks) IN
    IF r.ok /\ Len(r.rest) = 0
    THEN [ok |-> TRUE, val |-> r.val]
    ELSE [ok |-> FALSE, val |-> Undefined]

RECURSIVE JSONText(_)
RECURSIVE MembersText(_)
\* the JSON text of a value, as the service writes a reply
JSONText(val) ==
    IF val.t = "object"
    THEN <<LBrace>> \o MembersText(val.o) \o <<RBrace>>
    ELSE <<Lit(val)>>

MembersText(members) ==
    IF Len(members) = 0 THEN <<>>
    ELSE <<Lit(Str(members[1][1])), Colon>> \o JSONText(members[1][2])
         \o (IF Len(members) > 1
             THEN <<Comma>> \o MembersText(Tail(members))
             ELSE <<>>)

\* ------------------------------------------------------------------------
\* Schemas and the replies the service may send
\* ------------------------------------------------------------------------
\* analysisSchema.required
AnalysisFields ==
    { "verdict", "confidence_score", "simple_analysis", "recommendations",
      "expert_analysis", "sender_metadata", "headers", "red_flags",
      "attacker_replication_code" }

\* quizSchema.required
QuizFields == { "is_phishing", "sender", "subject", "body", "clues" }

\* val is an object that holds every field of the schema
HasFields(val, fields) ==
    /\ val.t = "object"
    /\ \A f \in fields : Get(val, f).t # "undefined"

\* a record of type AnalysisResult
AnalysisRecord(verdict, score, ip) ==
    Obj(<< <<"verdict", Str(verdict)>>,
           <<"confidence_score", Num(score)>>,
           <<"simple_analysis", Obj(<< <<"explanation", Str("explanation")>> >>)>>,
           <<"recommendations",
             Obj(<< <<"do", Arr("do")>>, <<"dont", Arr("dont")>> >>)>>,
           <<"expert_analysis",
             Obj(<< <<"technical_summary", Str("summary")>>,
                    <<"mitre_attack_ids", Arr("ids")>>,
                    <<"spf_dkim_dmarc_status", Str("status")>> >>)>>,
           <<"sender_metadata",
             Obj(<< <<"ip_address", Str(ip)>>,
                    <<"estimated_country", Str("country")>>,
                    <<"is_vpn_or_proxy", Bool(FALSE)>> >>)>>,
           <<"headers",
             Obj(<< <<"from", Str("from")>>,
                    <<"return_path", Str("return_path")>>,
                    <<"subject", Str("subject")>> >>)>>,
           <<"red_flags", Arr("flags")>>,
           <<"attacker_replication_code", Str("code")>> >>)

\* a record of type QuizScenario
QuizRecord(label) ==
    Obj(<< <<"is_phishing", label>>,
           <<"sender", Str("sender")>>,
           <<"subject", Str("subject")>>,
           <<"body", Str("body")>>,
           <<"clues", Str("clues")>> >>)

\* response.text is undefined or ""
EmptyText == <<>>

\* text that is no JSON
JunkText == <<Junk>>

\* the JSON text null
NullText == <<Lit(Null)>>

\* the JSON text {}
EmptyObjectText == <<LBrace, RBrace>>

\* a record with one field of nine
PartialAnalysisText == JSONText(Obj(<< <<"verdict", Str("Clean")>> >>))

\* a full record cut before its closing brace
TruncatedAnalysisText ==
    LET full == JSONText(AnalysisRecord("Clean", 97, "8.8.8.8"))
    IN  SubSeq(full, 1, Len(full) - 1)

\* the records of the analysis schema the service sends
AnalysisRecords ==
    { AnalysisRecord("Clean", 97, "8.8.8.8"),
      AnalysisRecord("Malicious", 100, "N/A"),
      AnalysisRecord("Suspicious", 60, "127.0.0.1"),
      AnalysisRecord("Suspicious", 60, ""),
      AnalysisRecord("Suspicious", 60, "n/a") }

WellFormedAnalysisTexts == { JSONText(r) : r \in AnalysisRecords }

MalformedAnalysisTexts ==
    { EmptyText, JunkText, NullText, EmptyObjectText, PartialAnalysisText,
      TruncatedAnalysisText }

\* a full record that the schema admits, confidence_score being an INTEGER
\* without a range, with a score above 100
OutOfRangeAnalysisText == JSONText(AnalysisRecord("Clean", 150, "N/A"))

\* a full record whose verdict is none of the three enumerated values
UnknownVerdictAnalysisText == JSONText(AnalysisRecord("Unknown", 50, "N/A"))

AnalysisTexts ==
    WellFormedAnalysisTexts \cup MalformedAnalysisTexts
        \cup { OutOfRangeAnalysisText, UnknownVerdictAnalysisText }

\* the records of the quiz schema the service sends: a phishing and a
\* legitimate scenario
QuizRecords == { QuizRecord(Bool(TRUE)), QuizRecord(Bool(FALSE)) }

WellFormedQuizTexts == { JSONText(r) : r \in QuizRecords }

\* a scenario without its label, and one whose label is the string "true"
MalformedQuizTexts ==
    { EmptyText, JunkText, NullText, EmptyObjectText,
      JSONText(Obj(<< <<"sender", Str("sender")>> >>)),
      JSONText(QuizRecord(Str("true"))) }

QuizTexts == WellFormedQuizTexts \cup MalformedQuizTexts

\* ------------------------------------------------------------------------
\* Files
\* ------------------------------------------------------------------------
File(name, type, bytes) == [name |-> name, type |-> type, bytes |-> bytes]

NameEml == <<"a", ".", "e", "m", "l">>

NameTxt == <<"a", ".", "t", "x", "t">>

NamePdf == <<"a", ".", "p", "d", "f">>

NameMsg == <<"a", ".", "m", "s", "g">>

\* the bytes of "Subject: test"
SubjectTest == <<83, 117, 98, 106, 101, 99, 116, 58, 32, 116, 101, 115, 116>>

\* the bytes of "a,b,c"
CommaBytes == <<97, 44, 98, 44, 99>>

\* the bytes of "Hi"
HiBytes == <<72, 105>>

FileNames == { NameEml, NameTxt, NamePdf, NameMsg }

\* File.type; "" when the browser knows no type for the file
FileTypes == { "text/plain", "message/rfc822", "application/pdf", "" }

FileBytes == { SubjectTest, CommaBytes, HiBytes, <<>> }

AllFiles == { File(nm, ty, by) : nm \in FileNames, ty \in FileTypes, by \in FileBytes }

\* processFile: whether the file is read as text
IsText(file) ==
    \/ EndsWith(file.name, <<".", "e", "m", "l">>)
    \/ EndsWith(file.name, <<".", "t", "x", "t">>)
    \/ file.type = "text/plain"

\* processFile: event.target.result, by readAsText or readAsDataURL
ReadResult(file) ==
    IF IsText(file)
    THEN StrOf(TextDecode(file.bytes))
    ELSE StrOf(DataURL(file.type, file.bytes))

\* a default that takes every file without a declared type for plain text
LoadedMimeTypeTextDefault(file) ==
    IF file.type # "" THEN Str(file.type) ELSE Str("text/plain")

\* processFile: the MIME type handed to onFileLoaded
LoadedMimeType(file) ==
    IF file.type # "" THEN Str(file.type)
    ELSE IF IsText(file) THEN Str("text/plain")
    ELSE Str("application/octet-stream")

\* analyzeEmail: whether the content goes out as inline binary data
IsBinary(mimeType) ==
    /\ Truthy(mimeType)
    /\ mimeType # Str("text/plain")
    /\ mimeType # Str("message/rfc822")

\* a dispatcher that sniffs the content: whatever holds a comma is taken
\* for a data URL
ContentsPayloadSniffing(content, mimeType) ==
    IF CommaFrom(content.s, 1) > 0
    THEN [shape |-> "inlineData", text |-> Undefined,
          mimeType |-> mimeType, data |-> SplitComma1(content.s)]
    ELSE [shape |-> "text", text |-> content,
          mimeType |-> Undefined, data |-> Undefined]

\* analyzeEmail: contentsPayload, either the content as a string or one
\* inlineData part
ContentsPayload(content, mimeType) ==
    IF IsBinary(mimeType)
    THEN [shape |-> "inlineData", text |-> Undefined,
          mimeType |-> mimeType, data |-> SplitComma1(content.s)]
    ELSE [shape |-> "text", text |-> content,
          mimeType |-> Undefined, data |-> Undefined]

\* the geolocation record ipapi.co returns
GeoRecord(lat, lon) ==
    Obj(<< <<"latitude", Num(lat)>>, <<"longitude", Num(lon)>>,
           <<"city", Str("city")>>, <<"country_code", Str("cc")>>,
           <<"org", Str("org")>> >>)

\* the responses of the geolocation service: res.ok and the body
GeoResponses ==
    { [ok |-> TRUE, body |-> JSONText(GeoRecord(37, -122))],
      [ok |-> TRUE, body |-> JSONText(GeoRecord(0, 10))],
      [ok |-> TRUE, body |-> JSONText(Obj(<< <<"error", Bool(TRUE)>> >>))],
      [ok |-> TRUE, body |-> JunkText],
      [ok |-> FALSE, body |-> JSONText(GeoRecord(37, -122))],
      [ok |-> FALSE, body |-> JunkText] }

\* the replies of a session of the whole application
CoreAnalysisTexts ==
    { JSONText(AnalysisRecord("Clean", 97, "8.8.8.8")), JunkText, EmptyObjectText }

CoreQuizTexts == { JSONText(QuizRecord(Bool(TRUE))), JunkText, EmptyObjectText }

CoreGeoResponses ==
    { [ok |-> TRUE, body |-> JSONText(GeoRecord(37, -122))],
      [ok |-> FALSE, body |-> JunkText] }

\* ------------------------------------------------------------------------
\* Bounds
\* ------------------------------------------------------------------------
\* FileReader reads in progress at once
MaxReads == 2

\* analysis calls the model keeps outstanding at once
MaxAnalysisCalls == 2

\* quiz calls the model keeps outstanding at once, of any modal
MaxQuizCalls == 2

\* the score after which no further round is started
MaxScore == 2

\* ------------------------------------------------------------------------
\* State
\* ------------------------------------------------------------------------
VARIABLES
    fileContent,     \* App: string | null
    fileMimeType,    \* App: string | null
    fileName,        \* App: string | null
    analysis,        \* App: AnalysisResult | null
    isLoading,       \* App: an analysis call is awaited
    error,           \* App: string | null
    isAnalystMode,   \* App
    showQuiz,        \* App: QuizModal is mounted
    reads,           \* the files a FileReader of processFile is reading
    analysisCalls,   \* the contentsPayload of each outstanding analysis call
    quizData,        \* QuizModal: QuizScenario | null
    quizLoading,     \* QuizModal: loading
    quizResult,      \* QuizModal: result, "correct" | "wrong" | null
    score,           \* QuizModal
    quizCalls,       \* outstanding quiz calls of the mounted QuizModal
    quizOrphans,     \* outstanding quiz calls of modals since unmounted
    geoData,         \* ThreatMap: the geolocation record | null
    geoLoading,      \* ThreatMap: loading
    geoCalls,        \* the ip of each outstanding lookup of the mounted map
    crashed,         \* a render threw: React has unmounted the root
    lastEvent,       \* history: the step taken last
    lastInput,       \* history: the reply (for a lookup, res.ok first) or the
                     \* guess of that step
    analysisBefore   \* history: analysis when the last call was submitted

fileVars == <<fileContent, fileMimeType, fileName>>

quizVars == <<quizData, quizLoading, quizResult, score, quizCalls, quizOrphans>>

geoVars == <<geoData, geoLoading, geoCalls>>

vars ==
    <<fileContent, fileMimeType, fileName, analysis, isLoading, error,
      isAnalystMode, showQuiz, reads, analysisCalls, quizData, quizLoading,
      quizResult, score, quizCalls, quizOrphans, geoData, geoLoading, geoCalls,
      crashed, lastEvent, lastInput, analysisBefore>>

NoContentMessage == Str("No file content detected.")

AnalysisFailedMessage ==
    Str("Analysis failed. Please check your API key or file format.")

\* the useState initial values of App; the state of an unmounted QuizModal
\* or ThreatMap is written as null, false, 0 and no call
Init ==
    /\ fileContent = Null
    /\ fileMimeType = Null
    /\ fileName = Null
    /\ analysis = Null
    /\ isLoading = FALSE
    /\ error = Null
    /\ isAnalystMode = FALSE
    /\ showQuiz = FALSE
    /\ reads = {}
    /\ analysisCalls = <<>>
    /\ quizData = Null
    /\ quizLoading = FALSE
    /\ quizResult = Null
    /\ score = 0
    /\ quizCalls = 0
    /\ quizOrphans = 0
    /\ geoData = Null
    /\ geoLoading = FALSE
    /\ geoCalls = <<>>
    /\ crashed = FALSE
    /\ lastEvent = "Init"
    /\ lastInput = <<>>
    /\ analysisBefore = Null

Note(event, text) == lastEvent' = event /\ lastInput' = text

\* seq without its i-th element
RemoveAt(seq, i) == SubSeq(seq, 1, i - 1) \o SubSeq(seq, i + 1, Len(seq))

\* ------------------------------------------------------------------------
\* Rendering
\* ------------------------------------------------------------------------
\* x.map(...) throws unless x is an array
MapThrows(x) == x.t # "array"

\* CivilianView: the property reads that throw a TypeError
CivilianThrows(result) ==
    \/ ReadThrows(Get(result, "simple_analysis"))
    \/ ReadThrows(Get(result, "recommendations"))
    \/ MapThrows(Get(Get(result, "recommendations"), "do"))
    \/ MapThrows(Get(Get(result, "recommendations"), "dont"))

\* AnalystView: the property reads and calls that throw a TypeError
AnalystThrows(result) ==
    \/ Get(result, "verdict").t # "string"
    \/ ReadThrows(Get(result, "expert_analysis"))
    \/ ReadThrows(Get(result, "sender_metadata"))
    \/ MapThrows(Get(result, "red_flags"))
    \/ LET ids == Get(Get(result, "expert_analysis"), "mitre_attack_ids")
       IN  ReadThrows(ids) \/ (ids.t = "string" /\ Len(ids.s) > 0)
    \/ ReadThrows(Get(result, "headers"))

\* the results section throws while rendering result in the given mode
RenderThrows(result, analystMode) ==
    /\ Truthy(result)
    /\ IF analystMode THEN AnalystThrows(result) ELSE CivilianThrows(result)

\* AnalystView, and ThreatMap in it, is mounted
MapMounted(result, analystMode, hasCrashed) ==
    Truthy(result) /\ analystMode /\ ~hasCrashed

\* the ip prop of ThreatMap
IpOf(result) == Get(Get(result, "sender_metadata"), "ip_address")

\* an effect that looks the loopback address up like any other
IpSkippedButLoopback(ip) == ~Truthy(ip) \/ ip = Str("N/A")

\* ThreatMap's effect returns without a lookup
IpSkipped(ip) == ~Truthy(ip) \/ ip = Str("N/A") \/ ip = Str("127.0.0.1")

\* What a render of App with the new analysis and mode does below App: a
\* throwing view unmounts the root; a ThreatMap that mounts starts from
\* useState(null), useState(false) and runs its effect; one that stays
\* mounted runs the effect again when its ip changed; one that unmounts
\* loses its state, and its lookups can no longer set any.
Render(result, analystMode) ==
    /\ crashed' = RenderThrows(result, analystMode)
    /\ IF ~MapMounted(result, analystMode, RenderThrows(result, analystMode))
       THEN geoData' = Null /\ geoLoading' = FALSE /\ geoCalls' = <<>>
       ELSE IF ~MapMounted(analysis, isAnalystMode, crashed)
       THEN /\ geoData' = Null
            /\ geoLoading' = ~IpSkipped(IpOf(result))
            /\ geoCalls' = IF IpSkipped(IpOf(result)) THEN <<>> ELSE <<IpOf(result)>>
       ELSE IF IpOf(result) = IpOf(analysis) \/ IpSkipped(IpOf(result))
       THEN UNCHANGED geoVars
       ELSE /\ geoLoading' = TRUE
            /\ geoCalls' = Append(geoCalls, IpOf(result))
            /\ UNCHANGED geoData

\* ThreatMap: center, zoom and the marker
MapCenter ==
    IF Truthy(geoData)
    THEN <<Get(geoData, "latitude"), Get(geoData, "longitude")>>
    ELSE <<Num(20), Num(0)>>

MapZoom == IF Truthy(geoData) THEN 10 ELSE 2

MarkerShown == Truthy(geoData)

\* ------------------------------------------------------------------------
\* File loading: FileDropZone.processFile and App.handleFileLoaded
\* ------------------------------------------------------------------------
\* the files of a session of the analysis flow
SampleFiles ==
    { File(NameEml, "text/plain", SubjectTest),
      File(NameMsg, "message/rfc822", HiBytes),
      File(NamePdf, "application/pdf", CommaBytes),
      File(NameTxt, "application/pdf", CommaBytes),
      File(NameTxt, "text/plain", <<>>) }

\* the files of a session of the whole application
CoreFiles ==
    { File(NameEml, "text/plain", SubjectTest),
      File(NameTxt, "text/plain", <<>>) }

\* CivilianView: bgGradient, icon and titleColor, by the colour they share
Theme(verdict) ==
    IF verdict = Str("Malicious") THEN "red"
    ELSE IF verdict = Str("Suspicious") THEN "amber"
    ELSE "green"

\* CivilianView: the headline
Headline(verdict) ==
    IF verdict = Str("Clean") THEN "Safe to Open"
    ELSE IF verdict = Str("Malicious") THEN "Do Not Open"
    ELSE "Be Careful"

\* the error banner is rendered
ErrorShown == ~crashed /\ Truthy(error)

\* the results section is rendered
ResultsShown == ~crashed /\ Truthy(analysis)

\* CivilianView is rendered
CivilianShown == ResultsShown /\ ~isAnalystMode

\* AnalystView is rendered
AnalystShown == ResultsShown /\ isAnalystMode

\* the drop zone is rendered: it is part of the input section
DropZoneShown == ~crashed /\ ~Truthy(analysis)

\* a file is dropped or picked: processFile starts a FileReader on it
ProcessFile(files) ==
    /\ DropZoneShown
    /\ Cardinality(reads) < MaxReads
    /\ \E file \in files \ reads : reads' = reads \cup {file}
    /\ Note("ProcessFile", <<>>)
    /\ UNCHANGED <<fileVars, analysis, isLoading, error, isAnalystMode, showQuiz,
                   analysisCalls, quizVars, geoVars, crashed, analysisBefore>>

\* a handleFileLoaded that does not call setFileMimeType
ReaderOnloadKeepsType ==
    /\ ~crashed
    /\ \E file \in reads :
        /\ reads' = reads \ {file}
        /\ fileContent' = ReadResult(file)
        /\ fileName' = StrOf(file.name)
        /\ fileMimeType' = fileMimeType
    /\ analysis' = Null
    /\ error' = Null
    /\ Render(Null, isAnalystMode)
    /\ Note("ReaderOnload", <<>>)
    /\ UNCHANGED <<isLoading, isAnalystMode, showQuiz, analysisCalls, quizVars,
                   analysisBefore>>

\* reader.onload: handleFileLoaded(result, name, type)
ReaderOnload ==
    /\ ~crashed
    /\ \E file \in reads :
        /\ reads' = reads \ {file}
        /\ fileContent' = ReadResult(file)
        /\ fileName' = StrOf(file.name)
        /\ fileMimeType' = LoadedMimeType(file)
    /\ analysis' = Null
    /\ error' = Null
    /\ Render(Null, isAnalystMode)
    /\ Note("ReaderOnload", <<>>)
    /\ UNCHANGED <<isLoading, isAnalystMode, showQuiz, analysisCalls, quizVars,
                   analysisBefore>>

\* the read fails: processFile sets no onerror, nothing is called
ReaderFails ==
    /\ ~crashed
    /\ \E file \in reads : reads' = reads \ {file}
    /\ Note("ReaderFails", <<>>)
    /\ UNCHANGED <<fileVars, analysis, isLoading, error, isAnalystMode, showQuiz,
                   analysisCalls, quizVars, geoVars, crashed, analysisBefore>>

\* ------------------------------------------------------------------------
\* Analysis: App.analyzeEmail
\* ------------------------------------------------------------------------
\* the Run Analysis button is rendered
RunAnalysisShown == ~crashed /\ ~Truthy(analysis) /\ Truthy(fileContent)

\* a submit button without disabled={isLoading}
RunAnalysisNeverDisabled == RunAnalysisShown

\* ... and not disabled
RunAnalysisEnabled == RunAnalysisShown /\ ~isLoading

\* a guard that tests for null only and lets the empty string through
NoContentNullOnly(content) == content = Null

\* analyzeEmail returns early: no file content
NoContent(content) == ~Truthy(content)

\* an analyzeEmail that does not call setError(null) before its request
analyzeEmailKeepsError ==
    IF NoContent(fileContent)
    THEN /\ error' = NoContentMessage
         /\ UNCHANGED <<analysis, isLoading, analysisCalls, analysisBefore,
                        geoVars, crashed>>
    ELSE /\ isLoading' = TRUE
         /\ error' = error
         /\ analysis' = Null
         /\ analysisCalls' =
                Append(analysisCalls, ContentsPayload(fileContent, fileMimeType))
         /\ analysisBefore' = analysis
         /\ Render(Null, isAnalystMode)

\* analyzeEmail up to its await
analyzeEmail ==
    IF NoContent(fileContent)
    THEN /\ error' = NoContentMessage
         /\ UNCHANGED <<analysis, isLoading, analysisCalls, analysisBefore,
                        geoVars, crashed>>
    ELSE /\ isLoading' = TRUE
         /\ error' = Null
         /\ analysis' = Null
         /\ analysisCalls' =
                Append(analysisCalls, ContentsPayload(fileContent, fileMimeType))
         /\ analysisBefore' = analysis
         /\ Render(Null, isAnalystMode)

\* a click on Run Analysis
AnalyzeEmailClick ==
    /\ RunAnalysisEnabled
    /\ Len(analysisCalls) < MaxAnalysisCalls
    /\ analyzeEmail
    /\ Note("AnalyzeEmail", <<>>)
    /\ UNCHANGED <<fileVars, isAnalystMode, showQuiz, reads, quizVars>>

\* the try block binds the reply: the text is not empty and JSON.parse
\* returns
AnalysisBinds(text) == Len(text) > 0 /\ JSONParse(text).ok

\* a try block without the else branch that throws on an empty reply
AnalysisThrowsOnSyntaxOnly(text) == Len(text) > 0 /\ ~JSONParse(text).ok

\* the catch block runs: the reply is empty or JSON.parse throws
AnalysisThrows(text) == ~AnalysisBinds(text)

\* a binder that copies the fields one by one and forgets red_flags
BoundAnalysisLossy(text, current) ==
    IF AnalysisBinds(text)
    THEN Obj(SelectSeq(JSONParse(text).val.o, LAMBDA m : m[1] # "red_flags"))
    ELSE current

\* the analysis state after the reply: setAnalysis(JSON.parse(text)), or
\* the state as it was
BoundAnalysis(text, current) ==
    IF AnalysisBinds(text) THEN JSONParse(text).val ELSE current

\* generateContent resolves with a reply text: the rest of analyzeEmail
AnalysisResolve(texts) ==
    /\ ~crashed
    /\ \E i \in 1..Len(analysisCalls), text \in texts :
        /\ analysisCalls' = RemoveAt(analysisCalls, i)
        /\ analysis' = BoundAnalysis(text, analysis)
        /\ error' = IF AnalysisThrows(text) THEN AnalysisFailedMessage ELSE error
        /\ isLoading' = FALSE
        /\ Render(BoundAnalysis(text, analysis), isAnalystMode)
        /\ Note("AnalysisResolve", text)
    /\ UNCHANGED <<fileVars, isAnalystMode, showQuiz, reads, quizVars,
                   analysisBefore>>

\* a catch block that reports a rejection with a message of its own
AnalysisRejectOwnMessage ==
    /\ ~crashed
    /\ \E i \in 1..Len(analysisCalls) : analysisCalls' = RemoveAt(analysisCalls, i)
    /\ error' = Str("Network error.")
    /\ isLoading' = FALSE
    /\ Note("AnalysisReject", <<>>)
    /\ UNCHANGED <<fileVars, analysis, isAnalystMode, showQuiz, reads, quizVars,
                   geoVars, crashed, analysisBefore>>

\* generateContent rejects: catch and finally
AnalysisReject ==
    /\ ~crashed
    /\ \E i \in 1..Len(analysisCalls) : analysisCalls' = RemoveAt(analysisCalls, i)
    /\ error' = AnalysisFailedMessage
    /\ isLoading' = FALSE
    /\ Note("AnalysisReject", <<>>)
    /\ UNCHANGED <<fileVars, analysis, isAnalystMode, showQuiz, reads, quizVars,
                   geoVars, crashed, analysisBefore>>

\* a reset that forgets setFileContent(null)
ResetKeepsContent ==
    /\ ~crashed
    /\ Truthy(analysis)
    /\ analysis' = Null
    /\ fileName' = Null
    /\ Render(Null, isAnalystMode)
    /\ Note("Reset", <<>>)
    /\ UNCHANGED <<fileContent, fileMimeType, isLoading, error, isAnalystMode,
                   showQuiz, reads, analysisCalls, quizVars, analysisBefore>>

\* a click on Analyze Another File, shown with the results
Reset ==
    /\ ~crashed
    /\ Truthy(analysis)
    /\ analysis' = Null
    /\ fileContent' = Null
    /\ fileName' = Null
    /\ Render(Null, isAnalystMode)
    /\ Note("Reset", <<>>)
    /\ UNCHANGED <<fileMimeType, isLoading, error, isAnalystMode, showQuiz, reads,
                   analysisCalls, quizVars, analysisBefore>>

\* ModeToggle: a click on Civilian Mode, isAnalyst && toggle()
ClickCivilianMode ==
    /\ ~crashed
    /\ isAnalystMode' = FALSE
    /\ IF isAnalystMode THEN Render(analysis, FALSE) ELSE UNCHANGED <<geoVars, crashed>>
    /\ Note("ClickCivilianMode", <<>>)
    /\ UNCHANGED <<fileVars, analysis, isLoading, error, showQuiz, reads,
                   analysisCalls, quizVars, analysisBefore>>

\* ModeToggle: a click on SOC Analyst, !isAnalyst && toggle()
ClickSOCAnalyst ==
    /\ ~crashed
    /\ isAnalystMode' = TRUE
    /\ IF ~isAnalystMode THEN Render(analysis, TRUE) ELSE UNCHANGED <<geoVars, crashed>>
    /\ Note("ClickSOCAnalyst", <<>>)
    /\ UNCHANGED <<fileVars, analysis, isLoading, error, showQuiz, reads,
                   analysisCalls, quizVars, analysisBefore>>

\* ------------------------------------------------------------------------
\* Geolocation: ThreatMap.fetchGeo
\* ------------------------------------------------------------------------
\* a fetchGeo that does not test res.ok
GeoBindsAnyStatus(resp) ==
    LET data == JSONParse(resp.body)
    IN  /\ data.ok
        /\ Truthy(Get(data.val, "latitude"))
        /\ Truthy(Get(data.val, "longitude"))

\* fetchGeo calls setGeoData: the response is OK, its body is JSON and it
\* holds a truthy latitude and a truthy longitude
GeoBinds(resp) ==
    /\ resp.ok
    /\ LET data == JSONParse(resp.body)
       IN  /\ data.ok
           /\ Truthy(Get(data.val, "latitude"))
           /\ Truthy(Get(data.val, "longitude"))

\* fetch resolves: the rest of fetchGeo
GeoResolve(resps) ==
    /\ ~crashed
    /\ \E i \in 1..Len(geoCalls), resp \in resps :
        /\ geoCalls' = RemoveAt(geoCalls, i)
        /\ geoData' = IF GeoBinds(resp) THEN JSONParse(resp.body).val ELSE geoData
        /\ Note("GeoResolve", <<Lit(Bool(resp.ok))>> \o resp.body)
    /\ geoLoading' = FALSE
    /\ UNCHANGED <<fileVars, analysis, isLoading, error, isAnalystMode, showQuiz,
                   reads, analysisCalls, quizVars, crashed, analysisBefore>>

\* fetch rejects: catch and finally
GeoReject ==
    /\ ~crashed
    /\ \E i \in 1..Len(geoCalls) : geoCalls' = RemoveAt(geoCalls, i)
    /\ geoLoading' = FALSE
    /\ Note("GeoReject", <<>>)
    /\ UNCHANGED <<fileVars, analysis, isLoading, error, isAnalystMode, showQuiz,
                   reads, analysisCalls, quizVars, geoData, crashed, analysisBefore>>

\* ------------------------------------------------------------------------
\* Quiz: QuizModal
\* ------------------------------------------------------------------------
\* a loadQuestion that does not call setResult(null)
loadQuestionKeepsResult ==
    /\ quizLoading' = TRUE
    /\ quizResult' = quizResult
    /\ quizData' = Null
    /\ quizCalls' = quizCalls + 1

\* loadQuestion up to its await
loadQuestion ==
    /\ quizLoading' = TRUE
    /\ quizResult' = Null
    /\ quizData' = Null
    /\ quizCalls' = quizCalls + 1

\* a click on TRAINING DOJO: QuizModal mounts with its useState initial
\* values and its effect calls loadQuestion
OpenQuiz ==
    /\ ~crashed
    /\ ~showQuiz
    /\ quizCalls + quizOrphans < MaxQuizCalls
    /\ showQuiz' = TRUE
    /\ score' = 0
    /\ loadQuestion
    /\ Note("OpenQuiz", <<>>)
    /\ UNCHANGED <<fileVars, analysis, isLoading, error, isAnalystMode, reads,
                   analysisCalls, quizOrphans, geoVars, crashed, analysisBefore>>

\* onClose: QuizModal unmounts; its calls stay outstanding, nothing cancels
\* them
CloseQuiz ==
    /\ ~crashed
    /\ showQuiz
    /\ showQuiz' = FALSE
    /\ quizData' = Null
    /\ quizLoading' = FALSE
    /\ quizResult' = Null
    /\ score' = 0
    /\ quizCalls' = 0
    /\ quizOrphans' = quizOrphans + quizCalls
    /\ Note("CloseQuiz", <<>>)
    /\ UNCHANGED <<fileVars, analysis, isLoading, error, isAnalystMode, reads,
                   analysisCalls, geoVars, crashed, analysisBefore>>

\* setQuizData is called: the text is not empty and JSON.parse returns
QuizBinds(text) == Len(text) > 0 /\ JSONParse(text).ok

\* generateContent resolves for the mounted modal: the rest of loadQuestion
QuizResolve(texts) ==
    /\ ~crashed
    /\ quizCalls > 0
    /\ \E text \in texts :
        /\ quizData' = IF QuizBinds(text) THEN JSONParse(text).val ELSE quizData
        /\ Note("QuizResolve", text)
    /\ quizLoading' = FALSE
    /\ quizCalls' = quizCalls - 1
    /\ UNCHANGED <<fileVars, analysis, isLoading, error, isAnalystMode, showQuiz,
                   reads, analysisCalls, quizResult, score, quizOrphans, geoVars,
                   crashed, analysisBefore>>

\* a rejection handler without the finally block
QuizRejectNoFinally ==
    /\ ~crashed
    /\ quizCalls > 0
    /\ quizCalls' = quizCalls - 1
    /\ Note("QuizReject", <<>>)
    /\ UNCHANGED <<fileVars, analysis, isLoading, error, isAnalystMode, showQuiz,
                   reads, analysisCalls, quizData, quizLoading, quizResult, score,
                   quizOrphans, geoVars, crashed, analysisBefore>>

\* generateContent rejects for the mounted modal: catch and finally
QuizReject ==
    /\ ~crashed
    /\ quizCalls > 0
    /\ quizLoading' = FALSE
    /\ quizCalls' = quizCalls - 1
    /\ Note("QuizReject", <<>>)
    /\ UNCHANGED <<fileVars, analysis, isLoading, error, isAnalystMode, showQuiz,
                   reads, analysisCalls, quizData, quizResult, score, quizOrphans,
                   geoVars, crashed, analysisBefore>>

\* a late reply whose finally block reaches the modal that is open now, as
\* with a loading flag kept outside the modal
QuizOrphanSettlesShared ==
    /\ ~crashed
    /\ quizOrphans > 0
    /\ quizOrphans' = quizOrphans - 1
    /\ quizLoading' = FALSE
    /\ Note("QuizOrphanSettles", <<>>)
    /\ UNCHANGED <<fileVars, analysis, isLoading, error, isAnalystMode, showQuiz,
                   reads, analysisCalls, quizData, quizResult, score,
                   quizCalls, geoVars, crashed, analysisBefore>>

\* a call of an unmounted modal settles: its setState calls set nothing
QuizOrphanSettles ==
    /\ ~crashed
    /\ quizOrphans > 0
    /\ quizOrphans' = quizOrphans - 1
    /\ Note("QuizOrphanSettles", <<>>)
    /\ UNCHANGED <<fileVars, analysis, isLoading, error, isAnalystMode, showQuiz,
                   reads, analysisCalls, quizData, quizLoading, quizResult, score,
                   quizCalls, geoVars, crashed, analysisBefore>>

\* QuizModal is mounted
QuizMounted == ~crashed /\ showQuiz

\* the scenario card is rendered
ScenarioShown == ~crashed /\ showQuiz /\ ~quizLoading /\ Truthy(quizData)

\* guess buttons that stay rendered after a guess
GuessShownAfterGuess == ScenarioShown

\* the LEGITIMATE and PHISHING buttons are rendered
GuessShown == ScenarioShown /\ ~Truthy(quizResult)

\* the NEXT ROUND button is rendered
NextRoundShown == ScenarioShown /\ Truthy(quizResult)

\* the failure text is rendered
QuizFailureShown == ~crashed /\ showQuiz /\ ~quizLoading /\ ~Truthy(quizData)

\* a comparison by truthiness, as == would make of a label that is no boolean
IsCorrectLoose(isPhishingGuess, data) ==
    isPhishingGuess = Truthy(Get(data, "is_phishing"))

\* handleGuess: isPhishingGuess === quizData.is_phishing
IsCorrect(isPhishingGuess, data) == Bool(isPhishingGuess) = Get(data, "is_phishing")

\* handleGuess
handleGuess(isPhishingGuess) ==
    IF ~Truthy(quizData)
    THEN UNCHANGED <<quizResult, score>>
    ELSE /\ quizResult' =
                IF IsCorrect(isPhishingGuess, quizData)
                THEN Str("correct") ELSE Str("wrong")
         /\ score' = IF IsCorrect(isPhishingGuess, quizData) THEN score + 1 ELSE score

\* a click on LEGITIMATE (false) or PHISHING (true)
HandleGuessClick ==
    /\ GuessShown
    /\ \E guess \in BOOLEAN :
        /\ handleGuess(guess)
        /\ Note("HandleGuess", <<Lit(Bool(guess))>>)
    /\ UNCHANGED <<fileVars, analysis, isLoading, error, isAnalystMode, showQuiz,
                   reads, analysisCalls, quizData, quizLoading, quizCalls,
                   quizOrphans, geoVars, crashed, analysisBefore>>

\* a click on NEXT ROUND
NextRound ==
    /\ NextRoundShown
    /\ score < MaxScore
    /\ quizCalls + quizOrphans < MaxQuizCalls
    /\ loadQuestion
    /\ Note("NextRound", <<>>)
    /\ UNCHANGED <<fileVars, analysis, isLoading, error, isAnalystMode, showQuiz,
                   reads, analysisCalls, score, quizOrphans, geoVars, crashed,
                   analysisBefore>>

\* ------------------------------------------------------------------------
\* The application: every control as it is rendered, every callback
\* ------------------------------------------------------------------------
Next ==
    \/ ProcessFile(CoreFiles)
    \/ ReaderOnload
    \/ ReaderFails
    \/ AnalyzeEmailClick
    \/ AnalysisResolve(CoreAnalysisTexts)
    \/ AnalysisReject
    \/ Reset
    \/ ClickCivilianMode
    \/ ClickSOCAnalyst
    \/ GeoResolve(CoreGeoResponses)
    \/ GeoReject
    \/ OpenQuiz
    \/ CloseQuiz
    \/ QuizResolve(CoreQuizTexts)
    \/ QuizReject
    \/ QuizOrphanSettles
    \/ HandleGuessClick
    \/ NextRound

Spec == Init /\ [][Next]_vars

\* The two flows, one file, with a service that settles every call: each
\* analysis call and each quiz call of the mounted modal eventually
\* resolves or rejects
NextLive ==
    \/ ProcessFile({ File(NameEml, "text/plain", SubjectTest) })
    \/ ReaderOnload
    \/ AnalyzeEmailClick
    \/ AnalysisResolve(CoreAnalysisTexts)
    \/ AnalysisReject
    \/ Reset
    \/ OpenQuiz
    \/ CloseQuiz
    \/ QuizResolve(CoreQuizTexts)
    \/ QuizReject
    \/ QuizOrphanSettles
    \/ HandleGuessClick
    \/ NextRound

SpecLive ==
    /\ Init
    /\ [][NextLive]_vars
    /\ WF_vars(AnalysisReject \/ AnalysisResolve(CoreAnalysisTexts))
    /\ WF_vars(QuizReject \/ QuizResolve(CoreQuizTexts))

\* The analysis flow alone, the quiz never opened: every file and every
\* reply of the samples
NextAnalysis ==
    \/ ProcessFile(SampleFiles)
    \/ ReaderOnload
    \/ ReaderFails
    \/ AnalyzeEmailClick
    \/ AnalysisResolve(AnalysisTexts)
    \/ AnalysisReject
    \/ Reset
    \/ ClickCivilianMode
    \/ ClickSOCAnalyst
    \/ GeoResolve(GeoResponses)
    \/ GeoReject

SpecAnalysis == Init /\ [][NextAnalysis]_vars

\* analyzeEmail called with no file content, by a submit control that is
\* rendered without the fileContent && gate and disabled while loading
AnalyzeEmailAttempt ==
    /\ ~crashed
    /\ ~Truthy(analysis)
    /\ ~Truthy(fileContent)
    /\ ~isLoading
    /\ Len(analysisCalls) < MaxAnalysisCalls
    /\ analyzeEmail
    /\ Note("AnalyzeEmail", <<>>)
    /\ UNCHANGED <<fileVars, isAnalystMode, showQuiz, reads, quizVars>>

\* The analysis flow with a caller of analyzeEmail that does not gate on
\* the presence of file content
NextAnalysisAttempt == NextAnalysis \/ AnalyzeEmailAttempt

SpecAnalysisAttempt == Init /\ [][NextAnalysisAttempt]_vars

\* The quiz flow alone, no file loaded: every reply of the samples
NextQuiz ==
    \/ OpenQuiz
    \/ CloseQuiz
    \/ QuizResolve(QuizTexts)
    \/ QuizReject
    \/ QuizOrphanSettles
    \/ HandleGuessClick
    \/ NextRound

SpecQuiz == Init /\ [][NextQuiz]_vars

\* handleGuess called while the modal holds no scenario, by guess buttons
\* that are rendered without the quizData gate
HandleGuessAttempt ==
    /\ ~crashed
    /\ showQuiz
    /\ ~Truthy(quizData)
    /\ \E guess \in BOOLEAN :
        /\ handleGuess(guess)
        /\ Note("HandleGuess", <<Lit(Bool(guess))>>)
    /\ UNCHANGED <<fileVars, analysis, isLoading, error, isAnalystMode, showQuiz,
                   reads, analysisCalls, quizData, quizLoading, quizCalls,
                   quizOrphans, geoVars, crashed, analysisBefore>>

\* The quiz flow with a caller of handleGuess that does not gate on a
\* loaded scenario
NextQuizAttempt == NextQuiz \/ HandleGuessAttempt

SpecQuizAttempt == Init /\ [][NextQuizAttempt]_vars

\* The dispatch of one file: App as it is after a first file of any name,
\* declared type and content was dropped, its FileReader started
InitDispatch ==
    /\ fileContent = Null
    /\ fileMimeType = Null
    /\ fileName = Null
    /\ analysis = Null
    /\ isLoading = FALSE
    /\ error = Null
    /\ isAnalystMode = FALSE
    /\ showQuiz = FALSE
    /\ \E file \in AllFiles : reads = {file}
    /\ analysisCalls = <<>>
    /\ quizData = Null
    /\ quizLoading = FALSE
    /\ quizResult = Null
    /\ score = 0
    /\ quizCalls = 0
    /\ quizOrphans = 0
    /\ geoData = Null
    /\ geoLoading = FALSE
    /\ geoCalls = <<>>
    /\ crashed = FALSE
    /\ lastEvent = "ProcessFile"
    /\ lastInput = <<>>
    /\ analysisBefore = Null

NextDispatch ==
    \/ ReaderOnload
    \/ ReaderFails
    \/ AnalyzeEmailClick
    \/ AnalysisResolve(CoreAnalysisTexts)
    \/ AnalysisReject
    \/ Reset

SpecDispatch == InitDispatch /\ [][NextDispatch]_vars

\* ------------------------------------------------------------------------
\* Claims
\* ------------------------------------------------------------------------
LastCall == analysisCalls[Len(analysisCalls)]

\* the file's read has filled the file state of App
IsLoaded(file) ==
    /\ fileContent = ReadResult(file)
    /\ fileName = StrOf(file.name)
    /\ fileMimeType = LoadedMimeType(file)

\* a step of analyzeEmail has just issued a call for the loaded file
JustSubmitted == lastEvent = "AnalyzeEmail" /\ Len(analysisCalls) > 0

\* str after its first comma
AfterFirstComma(str) == SubSeq(str, CommaFrom(str, 1) + 1, Len(str))

\* C1: for every file declared text/plain or message/rfc822, whatever its
\* name, the payload analyzeEmail submits is the file's decoded text as a
\* plain string, never a data URL.
C1_TextPayloadIsDecodedText ==
    JustSubmitted =>
        \A file \in SampleFiles :
            (file.type \in {"text/plain", "message/rfc822"} /\ IsLoaded(file)) =>
                /\ LastCall.shape = "text"
                /\ LastCall.text = StrOf(TextDecode(file.bytes))

\* C2: for every file whose declared type is non-empty and neither
\* text/plain nor message/rfc822, whatever its name, the payload is one
\* inlineData part whose data is the file's data URL after its first comma
\* and whose mimeType is the declared type.
C2_BinaryPayloadIsBase64 ==
    JustSubmitted =>
        \A file \in SampleFiles :
            (file.type \notin {"", "text/plain", "message/rfc822"} /\ IsLoaded(file)) =>
                /\ LastCall.shape = "inlineData"
                /\ LastCall.mimeType = Str(file.type)
                /\ LastCall.data = StrOf(AfterFirstComma(DataURL(file.type, file.bytes)))

\* C3: when the reply text is a well-formed record of the analysis schema,
\* the bound analysis state holds all nine top-level fields with the
\* names and values of the reply, error is null and isLoading is false.
C3_WellFormedReplyIsBound ==
    (lastEvent = "AnalysisResolve" /\ lastInput \in WellFormedAnalysisTexts) =>
        /\ \E r \in AnalysisRecords :
            /\ lastInput = JSONText(r)
            /\ HasFields(analysis, AnalysisFields)
            /\ Len(analysis.o) = Cardinality(AnalysisFields)
            /\ \A f \in AnalysisFields : Get(analysis, f) = Get(r, f)
        /\ error = Null
        /\ isLoading = FALSE

\* a well-formed reply has been bound
C3_Witness ==
    /\ lastEvent = "AnalysisResolve"
    /\ lastInput = JSONText(AnalysisRecord("Malicious", 100, "N/A"))
    /\ Get(analysis, "verdict") = Str("Malicious")
    /\ Get(analysis, "attacker_replication_code") = Str("code")

\* the reply is empty or does not deserialize
Undeserializable(text) == Len(text) = 0 \/ ~JSONParse(text).ok

\* C4: when the analysis reply is empty or does not deserialize, no result
\* is bound and the error is set: analysis after the reply is what it was
\* before the submission.
C4_FailedReplyBindsNothing ==
    (lastEvent = "AnalysisResolve" /\ Undeserializable(lastInput)) =>
        /\ analysis = analysisBefore
        /\ ~Truthy(analysis)
        /\ error = AnalysisFailedMessage

\* an empty reply has been handled
C4_Witness ==
    /\ lastEvent = "AnalysisResolve"
    /\ lastInput = EmptyText
    /\ error = AnalysisFailedMessage
    /\ analysis = Null

\* C5: both binder flows fail closed: after every reply the view state
\* holds a complete record of the flow's schema, or no record together
\* with the flow's failure message; never a partial or malformed record.
C5_BindersFailClosed ==
    /\ lastEvent \in {"AnalysisResolve", "AnalysisReject"} =>
        \/ HasFields(analysis, AnalysisFields)
        \/ analysis = Null /\ error = AnalysisFailedMessage
    /\ lastEvent \in {"QuizResolve", "QuizReject"} =>
        \/ HasFields(quizData, QuizFields)
        \/ quizData = Null /\ QuizFailureShown

\* C6: with a scenario loaded a guess is marked correct exactly when the
\* guessed boolean equals the scenario's is_phishing label; the score grows
\* by exactly 1 on a correct guess and is unchanged on a wrong guess or
\* when no scenario is loaded.
C6_GuessScoring ==
    [][lastEvent' = "HandleGuess" =>
        LET guess == lastInput'[1].v
            label == Get(quizData, "is_phishing")
        IN  IF Truthy(quizData)
            THEN /\ quizResult' = IF guess = label THEN Str("correct") ELSE Str("wrong")
                 /\ score' = IF guess = label THEN score + 1 ELSE score
            ELSE /\ quizResult' = quizResult
                 /\ score' = score]_vars

\* a correct guess has been scored, and a guess made after it while the
\* next scenario is not loaded has left the score
C6_Witness ==
    /\ lastEvent = "HandleGuess"
    /\ showQuiz
    /\ ~Truthy(quizData)
    /\ score = 1

\* the lookup returned a status that is not OK, or a body without
\* coordinates
GeoFailure(input) ==
    \/ input[1].v = Bool(FALSE)
    \/ LET data == JSONParse(Tail(input))
       IN  \/ ~data.ok
           \/ Get(data.val, "latitude").t = "undefined"
           \/ Get(data.val, "longitude").t = "undefined"

\* C7: if the geolocation lookup rejects, returns a non-OK status or
\* returns no coordinates, the analysis result and the rest of the view
\* state are unchanged and the analyst view is still rendered, the lookup's
\* loading flag ends false, the map shows centre [20, 0], zoom 2 and no
\* marker, and no error is set.
C7_GeoFailureDegradesOnlyMap ==
    [][(\/ lastEvent' = "GeoReject"
        \/ lastEvent' = "GeoResolve" /\ GeoFailure(lastInput')) =>
        /\ analysis' = analysis
        /\ error' = error
        /\ UNCHANGED <<fileVars, isLoading, isAnalystMode, showQuiz>>
        /\ MapMounted(analysis', isAnalystMode', crashed')
        /\ geoLoading' = FALSE
        /\ MapCenter' = <<Num(20), Num(0)>>
        /\ MapZoom' = 2
        /\ ~MarkerShown']_vars

\* a lookup has returned a status that is not OK while the analyst view
\* shows a result
C7_Witness ==
    /\ lastEvent = "GeoResolve"
    /\ lastInput[1].v = Bool(FALSE)
    /\ MapMounted(analysis, isAnalystMode, crashed)
    /\ Get(analysis, "verdict") = Str("Clean")
    /\ ~geoLoading

\* C8: a submission attempted while no file content is available issues no
\* request: it sets the message 'No file content detected.' and leaves
\* isLoading false and analysis unchanged; and every request that is issued
\* carries non-empty file content.
C8_NoContentNoRequest ==
    [][/\ (lastEvent' = "AnalyzeEmail" /\ ~Truthy(fileContent)) =>
            /\ analysisCalls' = analysisCalls
            /\ error' = NoContentMessage
            /\ isLoading' = FALSE
            /\ analysis' = analysis
       /\ Len(analysisCalls') > Len(analysisCalls) =>
            /\ fileContent.t = "string"
            /\ Len(fileContent.s) > 0]_vars

\* a submission has been attempted with the content of an empty file
C8_Witness ==
    /\ lastEvent = "AnalyzeEmail"
    /\ fileContent = StrOf(<<>>)
    /\ error = NoContentMessage
    /\ analysisCalls = <<>>
    /\ ~isLoading

\* C9: after any failure of any flow the interface is back in the flow's
\* pre-submission state: nothing is in flight, the submitted input is
\* retained, and a control that reissues the request is rendered and
\* enabled.
C9_RetryAfterEveryFailure ==
    [][/\ (\/ lastEvent' = "AnalysisReject"
           \/ lastEvent' = "AnalysisResolve" /\ lastInput' \notin WellFormedAnalysisTexts) =>
            /\ ~isLoading'
            /\ analysisCalls' = <<>>
            /\ UNCHANGED fileVars
            /\ RunAnalysisEnabled'
       /\ (\/ lastEvent' = "QuizReject"
           \/ lastEvent' = "QuizResolve" /\ lastInput' \notin WellFormedQuizTexts) =>
            /\ ~quizLoading'
            /\ quizCalls' = 0
            /\ NextRoundShown']_vars

\* C10: under every interleaving each flow has at most one call to the
\* model outstanding: never two analysis calls and never two
\* quiz-generation calls in flight together.
C10_OneCallPerFlow ==
    /\ Len(analysisCalls) <= 1
    /\ quizCalls + quizOrphans <= 1

\* C11: isLoading is true exactly while an analysis call is outstanding; in
\* every state where it is true the submit control is disabled, so no
\* second call is issued before the outstanding one has resolved or
\* rejected.
C11_LoadingGuardsSubmit ==
    [][/\ isLoading' = (Len(analysisCalls') > 0)
       /\ isLoading' => ~RunAnalysisEnabled'
       /\ Len(analysisCalls') > Len(analysisCalls) =>
            /\ ~isLoading
            /\ analysisCalls = <<>>]_vars

\* a call is outstanding and the submit button is rendered, disabled
C11_Witness ==
    /\ isLoading
    /\ Len(analysisCalls) = 1
    /\ RunAnalysisShown
    /\ ~RunAnalysisEnabled

\* C12: a rejection of the analysis call and a reply with an empty or
\* undeserializable body lead to the same observable state: the one static
\* message, a null result and isLoading false, everything else as it was
\* before the call settled; the state after the failure does not tell
\* which kind of failure occurred.
C12_FailuresAreIndistinguishable ==
    [][(\/ lastEvent' = "AnalysisReject"
        \/ lastEvent' = "AnalysisResolve" /\ Undeserializable(lastInput')) =>
        /\ error' = AnalysisFailedMessage
        /\ analysis' = Null
        /\ isLoading' = FALSE
        /\ analysisCalls' = <<>>
        /\ UNCHANGED <<fileVars, isAnalystMode, showQuiz, reads, quizVars,
                       geoVars, crashed>>]_vars

\* a rejection has been handled with a file loaded
C12_Witness ==
    /\ lastEvent = "AnalysisReject"
    /\ error = AnalysisFailedMessage
    /\ analysis = Null
    /\ ~isLoading
    /\ Truthy(fileContent)

\* the name ends in .eml or .txt
HasTextSuffix(name) ==
    \/ EndsWith(name, <<".", "e", "m", "l">>)
    \/ EndsWith(name, <<".", "t", "x", "t">>)

OctetStream == Str("application/octet-stream")

\* C13: for a file with no declared MIME type, the stored type is
\* text/plain and the content is the decoded text exactly when the name
\* ends in .eml or .txt; otherwise the stored type is
\* application/octet-stream, the content is a data URL, and a submission
\* dispatches it as one inlineData part holding the base64 of the file.
C13_UntypedFileDispatch ==
    [][/\ lastEvent' = "ReaderOnload" =>
            \A file \in reads \ reads' :
                file.type = "" =>
                    IF HasTextSuffix(file.name)
                    THEN /\ fileMimeType' = Str("text/plain")
                         /\ fileContent' = StrOf(TextDecode(file.bytes))
                    ELSE /\ fileMimeType' = OctetStream
                         /\ fileContent' = StrOf(DataURL("", file.bytes))
                         /\ fileContent'.s[1] = "data:"
       /\ (lastEvent' = "AnalyzeEmail" /\ fileMimeType = OctetStream) =>
            /\ Len(analysisCalls') = Len(analysisCalls) + 1
            /\ analysisCalls'[Len(analysisCalls')].shape = "inlineData"
            /\ analysisCalls'[Len(analysisCalls')].mimeType = OctetStream
            /\ \E bytes \in FileBytes :
                /\ fileContent = StrOf(DataURL("", bytes))
                /\ analysisCalls'[Len(analysisCalls')].data = StrOf(Base64(bytes))]_vars

\* an untyped a.pdf has been submitted as inline binary data
C13_Witness ==
    /\ lastEvent = "AnalyzeEmail"
    /\ fileName = StrOf(NamePdf)
    /\ fileMimeType = OctetStream
    /\ Len(analysisCalls) = 1
    /\ LastCall.shape = "inlineData"
    /\ LastCall.data = StrOf(Base64(SubjectTest))

\* C14: after a reset the analysis result, the file content and the file
\* name are null, no result view is shown and no submit control is
\* available; while no file content is loaded no call is issued or
\* outstanding, and a result is displayed again only by the reply to an
\* analysis call, issued after a new file was loaded.
C14_ResetDiscardsResult ==
    [][/\ lastEvent' = "Reset" =>
            /\ analysis' = Null
            /\ fileContent' = Null
            /\ fileName' = Null
            /\ ~ResultsShown'
            /\ ~RunAnalysisShown'
            /\ analysisCalls' = <<>>
       /\ fileContent' = Null =>
            /\ ~RunAnalysisShown'
            /\ analysisCalls' = <<>>
            /\ ~ResultsShown'
       /\ (~ResultsShown /\ ResultsShown') =>
            /\ lastEvent' = "AnalysisResolve"
            /\ Len(analysisCalls) = 1
            /\ fileContent # Null]_vars

\* the result has been discarded; the MIME type of the file is still held
C14_Witness ==
    /\ lastEvent = "Reset"
    /\ analysis = Null
    /\ fileContent = Null
    /\ fileName = Null
    /\ fileMimeType = Str("message/rfc822")
    /\ ~isLoading

\* C15: in every reachable state where an analysis result is bound and
\* displayed, its verdict is one of Clean, Suspicious and Malicious and its
\* confidence_score is a number from 0 to 100, whatever the reply was.
C15_VerdictAndScoreInRange ==
    ResultsShown =>
        /\ Get(analysis, "verdict") \in { Str("Clean"), Str("Suspicious"), Str("Malicious") }
        /\ Get(analysis, "confidence_score").t = "number"
        /\ Get(analysis, "confidence_score").n \in 0..100

\* a click on one of the two controls of ModeToggle
ModeClick(event) == event \in { "ClickCivilianMode", "ClickSOCAnalyst" }

\* C16: the interface starts in Civilian mode; whenever a result is bound
\* exactly one of the Civilian and the Analyst view is shown, the one the
\* mode flag selects; a click on the control of the active mode changes
\* nothing; a mode switch changes none of file content, file name, MIME
\* type, analysis, error and isLoading, and issues no call to the model.
C16_ModeSelectsOneView ==
    [][/\ lastEvent = "Init" => ~isAnalystMode
       /\ Truthy(analysis') =>
            /\ CivilianShown' # AnalystShown'
            /\ AnalystShown' = isAnalystMode'
       /\ ModeClick(lastEvent') =>
            /\ UNCHANGED <<fileVars, analysis, error, isLoading>>
            /\ UNCHANGED <<analysisCalls, quizCalls, quizOrphans>>
       /\ (\/ lastEvent' = "ClickCivilianMode" /\ ~isAnalystMode
           \/ lastEvent' = "ClickSOCAnalyst" /\ isAnalystMode) =>
            UNCHANGED <<isAnalystMode, showQuiz, reads, quizVars, geoVars, crashed>>]_vars

\* the steps of the analysis flow and of the quiz flow
AnalysisEvents ==
    { "ProcessFile", "ReaderOnload", "ReaderFails", "AnalyzeEmail",
      "AnalysisResolve", "AnalysisReject", "Reset" }

QuizEvents ==
    { "OpenQuiz", "CloseQuiz", "QuizResolve", "QuizReject", "QuizOrphanSettles",
      "HandleGuess", "NextRound" }

\* C17: the two flows work on disjoint view state: every quiz action leaves
\* file content, file name, MIME type, analysis, error and isLoading
\* unchanged; every analysis action leaves the scenario, the round outcome,
\* the score and the quiz loading flag of the open modal unchanged, the
\* modal still mounted.
C17_FlowsAreDisjoint ==
    [][/\ lastEvent' \in QuizEvents =>
            UNCHANGED <<fileVars, analysis, error, isLoading, analysisCalls>>
       /\ lastEvent' \in AnalysisEvents =>
            /\ UNCHANGED <<quizData, quizResult, score, quizLoading, quizCalls>>
            /\ QuizMounted => QuizMounted']_vars

\* one analysis call and one quiz call are outstanding together
C17_BothInFlight ==
    /\ isLoading
    /\ Len(analysisCalls) = 1
    /\ QuizMounted
    /\ quizLoading
    /\ quizCalls = 1

\* C18: when the service settles every call, isLoading eventually becomes
\* false after each analysis call and the loading flag of the mounted quiz
\* modal after each quiz call; a rejection sets the error message in the
\* step that clears isLoading; and nothing but the settling of the call
\* (for the modal: or its closing) clears a loading flag, so with a call
\* that never settles the flag stays true.
C18_LoadingEventuallyClears ==
    /\ isLoading ~> ~isLoading
    /\ (QuizMounted /\ quizLoading) ~> ~(QuizMounted /\ quizLoading)
    /\ [][/\ lastEvent' = "AnalysisReject" =>
                /\ error' = AnalysisFailedMessage
                /\ isLoading /\ ~isLoading'
          /\ (isLoading /\ ~isLoading') =>
                lastEvent' \in { "AnalysisResolve", "AnalysisReject" }
          /\ (quizLoading /\ ~quizLoading') =>
                lastEvent' \in { "QuizResolve", "QuizReject", "CloseQuiz" }]_vars

\* a rejected analysis call has cleared isLoading while a quiz call is
\* still outstanding
C18_Witness ==
    /\ lastEvent = "AnalysisReject"
    /\ ~isLoading
    /\ error = AnalysisFailedMessage
    /\ QuizMounted
    /\ quizLoading

\* C19: starting a new round clears the scenario and the outcome of the
\* previous round before the request is issued and keeps the score; an
\* outcome is set only by judging the scenario held, which stays as it is;
\* an outcome is present only with a scenario, no call outstanding, and a
\* scenario that arrives finds no outcome.
C19_OutcomeBelongsToScenario ==
    [][/\ lastEvent' = "NextRound" =>
            /\ quizData' = Null
            /\ quizResult' = Null
            /\ score' = score
            /\ quizCalls' = quizCalls + 1
       /\ (Truthy(quizResult') /\ quizResult' # quizResult) =>
            /\ lastEvent' = "HandleGuess"
            /\ Truthy(quizData)
            /\ quizData' = quizData
       /\ Truthy(quizResult') =>
            /\ Truthy(quizData')
            /\ quizCalls' = 0
            /\ ~quizLoading'
       /\ quizData' # quizData => quizResult' = Null]_vars

\* a second round has been started after a correct guess
C19_Witness ==
    /\ lastEvent = "NextRound"
    /\ quizData = Null
    /\ quizResult = Null
    /\ quizLoading
    /\ score = 1

\* C20: the choice between a text payload and an inlineData payload depends
\* only on the declared MIME type and the name of the file: the payload
\* submitted for a file has the shape, and for inlineData the mimeType, of
\* the payload of every file of the same name and declared type with other
\* non-empty content.
C20_ShapeIgnoresContent ==
    [][(lastEvent' = "AnalyzeEmail" /\ Len(analysisCalls') > Len(analysisCalls)) =>
        \A f, g \in AllFiles :
            (/\ IsLoaded(f)
             /\ g.name = f.name /\ g.type = f.type
             /\ Len(f.bytes) > 0 /\ Len(g.bytes) > 0) =>
                LET sent == analysisCalls'[Len(analysisCalls')]
                    other == ContentsPayload(ReadResult(g), LoadedMimeType(g))
                IN  /\ sent.shape = other.shape
                    /\ sent.mimeType = other.mimeType]_vars

\* a.eml, declared text/plain, whose text holds commas has been submitted
\* as text
C20_Witness ==
    /\ lastEvent = "AnalyzeEmail"
    /\ IsLoaded(File(NameEml, "text/plain", CommaBytes))
    /\ Len(analysisCalls) = 1
    /\ LastCall.shape = "text"

\* C21: whenever the civilian view shows a result, whatever its verdict,
\* theme and headline express the same severity: green only with 'Safe to
\* Open', amber only with 'Be Careful', red only with 'Do Not Open'.
C21_ThemeMatchesHeadline ==
    CivilianShown =>
        LET theme == Theme(Get(analysis, "verdict"))
            headline == Headline(Get(analysis, "verdict"))
        IN  /\ theme = "green" => headline = "Safe to Open"
            /\ theme = "amber" => headline = "Be Careful"
            /\ theme = "red" => headline = "Do Not Open"

\* C22: under every interleaving of file loads, submissions and replies, a
\* reply that binds a result answers the request issued for the file that
\* is loaded when it is bound: the payload of the settled call is the
\* payload of the content and MIME type in view state.
C22_ResultIsOfLoadedFile ==
    [][(lastEvent' = "AnalysisResolve" /\ Truthy(analysis')) =>
        \E i \in 1..Len(analysisCalls) :
            /\ analysisCalls' = RemoveAt(analysisCalls, i)
            /\ fileContent'.t = "string"
            /\ analysisCalls[i] = ContentsPayload(fileContent', fileMimeType')]_vars

\* C23: in every reachable state error and analysis are not both non-null,
\* and the error banner and a result view are not both shown.
C23_ErrorExcludesResult ==
    /\ ~(error # Null /\ analysis # Null)
    /\ ~(ErrorShown /\ ResultsShown)

\* a result is shown without a banner, no call outstanding
C23_Witness ==
    /\ lastEvent = "AnalysisResolve"
    /\ ResultsShown
    /\ ~ErrorShown
    /\ error = Null
    /\ analysisCalls = <<>>
    /\ Get(analysis, "verdict") = Str("Malicious")

\* C24: file content, file name and MIME type are replaced together, by one
\* completed read: whenever content is loaded the three come from one
\* file, also when reads overlap and complete in any order; a completed
\* read clears analysis and error; a read that is started, and one that
\* fails, changes no view state.
C24_FileStateIsOfOneFile ==
    [][/\ lastEvent' = "ReaderOnload" =>
            /\ \E file \in reads \ reads' :
                /\ reads' = reads \ {file}
                /\ fileContent' = ReadResult(file)
                /\ fileName' = StrOf(file.name)
                /\ fileMimeType' = LoadedMimeType(file)
            /\ analysis' = Null
            /\ error' = Null
       /\ fileContent' # Null => \E file \in SampleFiles : IsLoaded(file)'
       /\ fileVars' # fileVars => lastEvent' \in { "ReaderOnload", "Reset" }
       /\ lastEvent' \in { "ProcessFile", "ReaderFails" } =>
            UNCHANGED <<fileVars, analysis, error, isLoading, isAnalystMode,
                        showQuiz, analysisCalls, geoVars, crashed>>]_vars

\* one of two overlapping reads has completed, the other is in progress
C24_Witness ==
    /\ lastEvent = "ReaderOnload"
    /\ reads # {}
    /\ IsLoaded(File(NameTxt, "application/pdf", CommaBytes))
    /\ analysis = Null
    /\ error = Null

\* C25: within one session of the quiz modal at most one guess is scored
\* per round.  The score changes only by a guess, by +1, made while the
\* scenario held has no outcome yet; once an outcome is set no guess button
\* is rendered and the outcome stays until the next round (which drops the
\* scenario) or the close; a scenario is held only by the binding of a
\* reply.  So the score never decreases and each point is earned on a
\* scenario of its own.
C25_OneGuessPerRound ==
    [][/\ (QuizMounted /\ QuizMounted') =>
            /\ score' >= score
            /\ score' # score =>
                /\ lastEvent' = "HandleGuess"
                /\ score' = score + 1
                /\ Truthy(quizData) /\ quizData' = quizData
                /\ quizResult = Null /\ quizResult' = Str("correct")
       /\ Truthy(quizResult') => ~GuessShown'
       /\ (Truthy(quizResult) /\ quizResult' # quizResult) =>
            /\ lastEvent' \in { "NextRound", "CloseQuiz" }
            /\ quizResult' = Null
            /\ quizData' = Null
       /\ (~Truthy(quizData) /\ Truthy(quizData')) => lastEvent' = "QuizResolve"
       /\ lastEvent' = "OpenQuiz" => score' = 0]_vars

\* the second round of a session has been guessed wrong after a first
\* round guessed right
C25_Witness ==
    /\ lastEvent = "HandleGuess"
    /\ score = 1
    /\ quizResult = Str("wrong")
    /\ NextRoundShown
    /\ ~GuessShown

\* C26: each opening of the quiz modal starts a fresh session, score 0, no
\* scenario, no outcome, loading true, and issues exactly one request; the
\* request of a closed modal stays outstanding, and its reply is dropped:
\* it binds no scenario, changes no score and leaves the loading flag and
\* the outstanding request of a modal opened later as they are.
C26_SessionsAreIsolated ==
    [][/\ lastEvent' = "OpenQuiz" =>
            /\ ~QuizMounted /\ QuizMounted'
            /\ score' = 0
            /\ quizData' = Null
            /\ quizResult' = Null
            /\ quizLoading' = TRUE
            /\ quizCalls' = 1
            /\ quizOrphans' = quizOrphans
       /\ lastEvent' = "CloseQuiz" =>
            /\ ~QuizMounted'
            /\ quizCalls' = 0
            /\ quizOrphans' = quizOrphans + quizCalls
       /\ lastEvent' = "QuizOrphanSettles" =>
            /\ quizOrphans' = quizOrphans - 1
            /\ UNCHANGED <<showQuiz, quizData, quizResult, score, quizLoading,
                           quizCalls>>]_vars

\* the reply to the request of a closed modal has arrived while the modal
\* opened after it is loading
C26_Witness ==
    /\ lastEvent = "QuizOrphanSettles"
    /\ QuizMounted
    /\ quizLoading
    /\ quizCalls = 1
    /\ quizOrphans = 0
    /\ quizData = Null

\* the lookup returned an OK response whose body holds a latitude and a
\* longitude
HasCoordinates(input) ==
    /\ input[1].v = Bool(TRUE)
    /\ LET data == JSONParse(Tail(input))
       IN  /\ data.ok
           /\ Get(data.val, "latitude").t = "number"
           /\ Get(data.val, "longitude").t = "number"

\* C27: whenever the lookup returns an OK response with a latitude and a
\* longitude, zero included, the map is centred on exactly these
\* coordinates at zoom 10 with the marker shown.
C27_MapCentredOnCoordinates ==
    [][(lastEvent' = "GeoResolve" /\ HasCoordinates(lastInput')) =>
        LET data == JSONParse(Tail(lastInput')).val
        IN  /\ MapCenter' = <<Get(data, "latitude"), Get(data, "longitude")>>
            /\ MapZoom' = 10
            /\ MarkerShown']_vars


\* the three IP strings for which no lookup is made
NoLookupIps == { Str(""), Str("N/A"), Str("127.0.0.1") }

\* the ThreatMap is rendered, for the IP string of the result shown
MapShownFor(result, analystMode, hasCrashed) ==
    MapMounted(result, analystMode, hasCrashed) /\ IpOf(result).t = "string"

\* C28: while the map is shown for an IP string that is empty, 'N/A' or
\* '127.0.0.1', no lookup is outstanding, the loading flag is false and the
\* map is on its default view (centre [20, 0], zoom 2, no marker); a step
\* that mounts the map for any other IP string issues one lookup for that
\* string and sets the loading flag.
C28_SkippedIpsAreNeverLookedUp ==
    [][/\ (MapShownFor(analysis', isAnalystMode', crashed')
            /\ IpOf(analysis') \in NoLookupIps) =>
                /\ geoCalls' = <<>>
                /\ ~geoLoading'
                /\ MapCenter' = <<Num(20), Num(0)>>
                /\ MapZoom' = 2
                /\ ~MarkerShown'
       /\ (MapShownFor(analysis', isAnalystMode', crashed')
            /\ ~MapMounted(analysis, isAnalystMode, crashed)
            /\ IpOf(analysis') \notin NoLookupIps) =>
                /\ geoCalls' = <<IpOf(analysis')>>
                /\ geoLoading']_vars

\* the map is shown for the loopback address, on its default view
C28_Witness ==
    /\ MapShownFor(analysis, isAnalystMode, crashed)
    /\ IpOf(analysis) = Str("127.0.0.1")
    /\ geoCalls = <<>>
    /\ MapZoom = 2

====
